---- MODULE Spec2Model ----
(***************************************************************************)
(* A model of the lazy combinatorial iterators of rust-itertools:          *)
(*   - LazyBuffer            (src/src/buffer.rs)                           *)
(*   - Permutations and its CompleteState engine (src/src/permutations.rs) *)
(*   - MultiProduct          (src/src/adaptors/multi_product.rs)           *)
(* Vectors are sequences; a Rust index i is position i + 1 of a sequence.  *)
(* Option values are records: None, Some(v).                               *)
(***************************************************************************)
EXTENDS Integers, Sequences, FiniteSets

\* ------------------------------------------------------------- bounds
\* longest producer handed to permutations() / LazyBuffer
MaxN == 4
\* how many times next() may report None before the model stops calling it
MaxRounds == 2
\* how many get() calls one LazyBuffer run makes
MaxGets == 3
\* largest n of a CompleteState whose remaining() is queried
MaxRemN == 22
\* how many advances are followed from each such state
MaxRemSteps == 3
\* most digit sequences of a MultiProduct, and the longest of them
MaxDigits == 3
MaxLen == 3
\* most digit sequences of a MultiProduct whose count() is queried, the longest
\* of them, and how many calls of next() are followed
MaxCountDigits == 16
MaxCountLen == 16
MaxCountCalls == 2

\* ------------------------------------------------------------- Option
None == [kind |-> "None", val |-> <<>>]
Some(v) == [kind |-> "Some", val |-> v]
\* a panic (unwrap of None, "unexpected iterator state") in place of a result
Panic == [kind |-> "Panic", val |-> <<>>]
\* no call has been made yet
NotCalled == [kind |-> "NotCalled", val |-> <<>>]
IsSome(o) == o.kind = "Some"
IsNone(o) == o.kind = "None"
IsPanic(o) == o.kind = "Panic"

\* ------------------------------------------------------------- producers
\* Item is an opaque Clone type: a producer is a finite sequence of letters.
\* Only the pattern of equal items can matter, so each pattern is taken once
\* (the first new item is "a", the next new one "b", ...).
Alphabet == <<"a", "b", "c", "d", "e", "f", "g">>
IsCanonical(f, n) == \A i \in 1..n : \/ f[i] = 1
                                     \/ \E j \in 1..(i - 1) : f[j] >= f[i] - 1
ProducersOfLen(n) == { [i \in 1..n |-> Alphabet[f[i]]] :
                         f \in { g \in [1..n -> 1..n] : IsCanonical(g, n) } }
Producers == UNION { ProducersOfLen(n) : n \in 0..MaxN }

\* ------------------------------------------------------------- usize
\* A usize is UsizeBits wide.  TLC's integers are narrower, so a usize that
\* takes part in checked arithmetic is kept as little-endian limbs of 16 bits.
UsizeBits == 64
LimbBase == 2^16
UsizeLimbs == UsizeBits \div 16

\* x * m + c over little-endian digits of base `base`: the digits of x, then
\* as many more as the carry out of the top digit needs
RECURSIVE MulAdd(_, _, _, _)
MulAdd(x, m, c, base) ==
    IF x = <<>>
    THEN IF c = 0 THEN <<>> ELSE <<c % base>> \o MulAdd(<<>>, m, c \div base, base)
    ELSE LET t == Head(x) * m + c
         IN  <<t % base>> \o MulAdd(Tail(x), m, t \div base, base)

RECURSIVE ToDigits(_, _, _)
ToDigits(x, len, base) ==
    IF len = 0 THEN <<>> ELSE <<x % base>> \o ToDigits(x \div base, len - 1, base)

\* `x as usize` for a small natural number x
ToUsize(x) == ToDigits(x, UsizeLimbs, LimbBase)
\* usize::MAX
UsizeMAX == [i \in 1..UsizeLimbs |-> LimbBase - 1]

\* usize::wrapping_mul(a, m) in the place of checked_mul
wrapping_mul(a, m) == Some(SubSeq(MulAdd(a, m, 0, LimbBase), 1, UsizeLimbs))
\* usize::checked_mul(a, m), usize::checked_add(a, c); m and c are small
\* natural numbers (below 2^15) in every call the model makes
checked_mul(a, m) ==
    LET w == MulAdd(a, m, 0, LimbBase)
    IN  IF Len(w) > UsizeLimbs THEN None ELSE Some(w)
checked_add(a, c) ==
    LET w == MulAdd(a, 1, c, LimbBase)
    IN  IF Len(w) > UsizeLimbs THEN None ELSE Some(w)

\* ------------------------------------------------------------- LazyBuffer
\* LazyBuffer { iter, buffer }; pulls counts the calls of iter.next() (ghost).
\* The producer is its remaining items; next() on none left gives None.
LazyBufferFromSource(source) == [iter |-> source, buffer |-> <<>>, pulls |-> 0]

\* get(index) returning the newest buffered item instead of buffer[index]
RECURSIVE LazyBufferGet_Newest(_, _)
LazyBufferGet_Newest(b, index) ==
    IF Len(b.buffer) > index
    THEN [ret |-> Some(b.buffer[Len(b.buffer)]), vals |-> b]
    ELSE IF b.iter # <<>>
         THEN LazyBufferGet_Newest([iter |-> Tail(b.iter),
                                    buffer |-> Append(b.buffer, Head(b.iter)),
                                    pulls |-> b.pulls + 1], index)
         ELSE [ret |-> None, vals |-> [b EXCEPT !.pulls = @ + 1]]

\* get(index): loop { if buffer.len() > index return Some(buffer[index]);
\*                    match iter.next() { Some => push, None => return None } }
RECURSIVE LazyBufferGet(_, _)
LazyBufferGet(b, index) ==
    IF Len(b.buffer) > index
    THEN [ret |-> Some(b.buffer[index + 1]), vals |-> b]
    ELSE IF b.iter # <<>>
         THEN LazyBufferGet([iter |-> Tail(b.iter),
                             buffer |-> Append(b.buffer, Head(b.iter)),
                             pulls |-> b.pulls + 1], index)
         ELSE [ret |-> None, vals |-> [b EXCEPT !.pulls = @ + 1]]

\* ------------------------------------------------------------- CompleteState
CompleteStart(n, k) == [tag |-> "Start", n |-> n, k |-> k]
CompleteOngoing(indices, cycles) ==
    [tag |-> "Ongoing", indices |-> indices, cycles |-> cycles]
\* n - k underflowed, or an index was out of range
CompleteFault == [tag |-> "Fault"]

\* the rotation left out
RemovePush_NoRotate(v, i) == v
\* Vec::remove(i) followed by push of the removed element
RemovePush(v, i) ==
    SubSeq(v, 1, i) \o SubSeq(v, i + 2, Len(v)) \o <<v[i + 1]>>
\* a swap that loses the element at i
Swap_Overwrite(v, i, j) == [v EXCEPT ![i + 1] = v[j + 1]]
\* slice::swap(i, j)
Swap(v, i, j) == [v EXCEPT ![i + 1] = v[j + 1], ![j + 1] = v[i + 1]]

\* the loop decrementing cycles[i] before it tests and uses it
RECURSIVE OngoingLoop_DecrementFirst(_, _, _)
OngoingLoop_DecrementFirst(indices, cycles, i) ==
    LET n == Len(indices)
        k == Len(cycles)
    IN  IF i < 0
        THEN CompleteStart(n, k)
        ELSE LET decremented == cycles[i + 1] - 1
                 swap_index == n - decremented
             IN  IF decremented < 0 \/ i >= n
                 THEN CompleteFault
                 ELSE IF decremented = 0
                      THEN OngoingLoop_DecrementFirst(
                               RemovePush(indices, i),
                               [cycles EXCEPT ![i + 1] = n - i - 1], i - 1)
                      ELSE IF swap_index < 0 \/ swap_index >= n
                           THEN CompleteFault
                           ELSE CompleteOngoing(Swap(indices, i, swap_index),
                                                [cycles EXCEPT ![i + 1] = decremented])

\* the loop ending in Start { n: k, k: n }
RECURSIVE OngoingLoop_SwappedStart(_, _, _)
OngoingLoop_SwappedStart(indices, cycles, i) ==
    LET n == Len(indices)
        k == Len(cycles)
    IN  IF i < 0
        THEN CompleteStart(k, n)
        ELSE IF cycles[i + 1] = 0
             THEN OngoingLoop_SwappedStart(RemovePush(indices, i),
                                           [cycles EXCEPT ![i + 1] = n - i - 1], i - 1)
             ELSE CompleteOngoing(Swap(indices, i, n - cycles[i + 1]),
                                  [cycles EXCEPT ![i + 1] = @ - 1])

\* the body of `for i in (0..k).rev()`, entered with the loop at i (i = -1: the
\* loop is over and the state returns to Start)
RECURSIVE OngoingLoop(_, _, _)
OngoingLoop(indices, cycles, i) ==
    LET n == Len(indices)
        k == Len(cycles)
    IN  IF i < 0
        THEN CompleteStart(n, k)
        ELSE IF cycles[i + 1] = 0
             THEN IF i >= n
                  THEN CompleteFault
                  ELSE OngoingLoop(RemovePush(indices, i),
                                   [cycles EXCEPT ![i + 1] = n - i - 1], i - 1)
             ELSE LET swap_index == n - cycles[i + 1]
                  IN  IF swap_index < 0 \/ swap_index >= n \/ i >= n
                      THEN CompleteFault
                      ELSE CompleteOngoing(Swap(indices, i, swap_index),
                                           [cycles EXCEPT ![i + 1] = @ - 1])

\* ((n - k)..n).rev().collect(), without the .rev()
InitialCycles_NotReversed(n, k) == [i \in 1..k |-> n - k + i - 1]
\* ((n - k)..n).rev().collect()
InitialCycles(n, k) == [i \in 1..k |-> n - i]

\* CompleteState::advance
CompleteAdvance(cs) ==
    CASE cs.tag = "Start" ->
           IF cs.n < cs.k
           THEN CompleteFault
           ELSE CompleteOngoing([i \in 1..cs.n |-> i - 1],
                                InitialCycles(cs.n, cs.k))
      [] cs.tag = "Ongoing" ->
           OngoingLoop(cs.indices, cs.cycles, Len(cs.cycles) - 1)
      [] OTHER -> cs

\* `times` calls of advance in a row
RECURSIVE CompleteAdvanceTimes(_, _)
CompleteAdvanceTimes(cs, times) ==
    IF times = 0 THEN cs ELSE CompleteAdvanceTimes(CompleteAdvance(cs), times - 1)

\* CompleteStateRemaining
Known(count) == [tag |-> "Known", count |-> count]
Overflow == [tag |-> "Overflow", count |-> <<>>]

\* (lo..hi).fold(acc, |acc, i| acc.and_then(|acc| acc.checked_mul(i)))
RECURSIVE FoldCheckedMul(_, _, _)
FoldCheckedMul(acc, lo, hi) ==
    IF lo >= hi
    THEN acc
    ELSE FoldCheckedMul(IF IsSome(acc) THEN checked_mul(acc.val, lo) ELSE None,
                        lo + 1, hi)

\* the loop of remaining() with the radix n at every position
RECURSIVE OngoingRemaining_RadixN(_, _, _, _)
OngoingRemaining_RadixN(indices, cycles, i, count) ==
    IF i >= Len(cycles)
    THEN Known(count)
    ELSE LET radix == Len(indices)
             m == checked_mul(count, radix)
             next_count == IF IsSome(m) THEN checked_add(m.val, cycles[i + 1])
                           ELSE None
         IN  IF IsSome(next_count)
             THEN OngoingRemaining_RadixN(indices, cycles, i + 1, next_count.val)
             ELSE Overflow

\* the loop of remaining() over cycles.iter().enumerate(), from position i
RECURSIVE OngoingRemaining(_, _, _, _)
OngoingRemaining(indices, cycles, i, count) ==
    IF i >= Len(cycles)
    THEN Known(count)
    ELSE LET radix == Len(indices) - i
             m == checked_mul(count, radix)
             next_count == IF IsSome(m) THEN checked_add(m.val, cycles[i + 1])
                           ELSE None
         IN  IF IsSome(next_count)
             THEN OngoingRemaining(indices, cycles, i + 1, next_count.val)
             ELSE Overflow

\* CompleteState::remaining
remaining(cs) ==
    CASE cs.tag = "Start" ->
           IF cs.n < cs.k
           THEN Known(ToUsize(0))
           ELSE LET count == FoldCheckedMul(Some(ToUsize(1)),
                                            cs.n - cs.k + 1, cs.n + 1)
                IN  IF IsSome(count) THEN Known(count.val) ELSE Overflow
      [] cs.tag = "Ongoing" ->
           OngoingRemaining(cs.indices, cs.cycles, 0, ToUsize(0))
      [] OTHER -> Overflow

\* ------------------------------------------------------------- Permutations
StartUnknownLen(k) == [tag |-> "StartUnknownLen", k |-> k]
OngoingUnknownLen(k, min_n) ==
    [tag |-> "OngoingUnknownLen", k |-> k, min_n |-> min_n]
Complete(cs) == [tag |-> "Complete", cs |-> cs]
Empty == [tag |-> "Empty"]

\* permutations(iter, k) treating k = 0 like any k > n
permutations_ZeroIsEmpty(iter, k) ==
    LET vals == LazyBufferFromSource(iter)
    IN  IF k = 0
        THEN [vals |-> vals, state |-> Empty]
        ELSE LET g == LazyBufferGet(vals, k - 1)
             IN  [vals |-> g.vals,
                  state |-> IF IsSome(g.ret) THEN StartUnknownLen(k) ELSE Empty]
\* permutations(iter, k) without the probe of index k - 1
permutations_NoProbe(iter, k) ==
    LET vals == LazyBufferFromSource(iter)
    IN  IF k = 0
        THEN [vals |-> vals, state |-> Complete(CompleteStart(0, 0))]
        ELSE [vals |-> vals, state |-> StartUnknownLen(k)]
\* permutations(iter, k) pulling a first item also when k = 0
permutations_ZeroProbes(iter, k) ==
    LET vals == LazyBufferFromSource(iter)
        g == LazyBufferGet(vals, IF k = 0 THEN 0 ELSE k - 1)
    IN  IF k = 0
        THEN [vals |-> g.vals, state |-> Complete(CompleteStart(0, 0))]
        ELSE [vals |-> g.vals,
              state |-> IF IsSome(g.ret) THEN StartUnknownLen(k) ELSE Empty]
\* permutations(iter, k)
permutations(iter, k) ==
    LET vals == LazyBufferFromSource(iter)
    IN  IF k = 0
        THEN [vals |-> vals, state |-> Complete(CompleteStart(0, 0))]
        ELSE LET g == LazyBufferGet(vals, k - 1)
             IN  [vals |-> g.vals,
                  state |-> IF IsSome(g.ret) THEN StartUnknownLen(k) ELSE Empty]

\* the replay with one advance too few
ReplayCount_OneShort(n, k) == n - k + 1
\* the replay with one advance too many
ReplayCount_OneMore(n, k) == n - k + 3
\* how often the fresh CompleteState is advanced when the producer ends:
\* prev_iteration_count + 1, with prev_iteration_count = n - k + 1
ReplayCount(n, k) ==
    LET prev_iteration_count == n - k + 1
    IN  prev_iteration_count + 1

\* Permutations::advance
PermAdvance(p) ==
    CASE p.state.tag = "StartUnknownLen" ->
           [p EXCEPT !.state = OngoingUnknownLen(p.state.k, p.state.k)]
      [] p.state.tag = "OngoingUnknownLen" ->
           LET k == p.state.k
               min_n == p.state.min_n
               g == LazyBufferGet(p.vals, min_n)
           IN  IF IsSome(g.ret)
               THEN [vals |-> g.vals, state |-> OngoingUnknownLen(k, min_n + 1)]
               ELSE LET n == min_n
                    IN  [vals |-> g.vals,
                         state |-> Complete(CompleteAdvanceTimes(
                                      CompleteStart(n, k), ReplayCount(n, k)))]
      [] p.state.tag = "Complete" ->
           [p EXCEPT !.state = Complete(CompleteAdvance(p.state.cs))]
      [] OTHER -> p

\* the source positions next() reads after advance: None when it returns None,
\* Panic when it panics ("unexpected iterator state")
PermPositions(state) ==
    CASE state.tag = "StartUnknownLen" -> Panic
      [] state.tag = "OngoingUnknownLen" ->
           Some([i \in 1..state.k |->
                   IF i < state.k THEN i - 1 ELSE state.min_n - 1])
      [] state.tag = "Complete" /\ state.cs.tag = "Ongoing" ->
           IF Len(state.cs.cycles) > Len(state.cs.indices)
           THEN Panic
           ELSE Some(SubSeq(state.cs.indices, 1, Len(state.cs.cycles)))
      [] state.tag = "Complete" /\ state.cs.tag = "Start" -> None
      [] state.tag = "Complete" -> Panic
      [] OTHER -> None

\* vals.get(i).unwrap() for each position, in order
RECURSIVE CollectVals(_, _, _)
CollectVals(vals, positions, acc) ==
    IF positions = <<>>
    THEN [ret |-> Some(acc), vals |-> vals]
    ELSE LET g == LazyBufferGet(vals, Head(positions))
         IN  IF IsNone(g.ret)
             THEN [ret |-> Panic, vals |-> g.vals]
             ELSE CollectVals(g.vals, Tail(positions), Append(acc, g.ret.val))

\* Permutations::next: the item returned, the positions it was read from, and
\* the iterator afterwards
PermNext(p) ==
    LET q == PermAdvance(p)
        pos == PermPositions(q.state)
    IN  IF IsPanic(pos)
        THEN [ret |-> Panic, idx |-> None, perm |-> q]
        ELSE IF IsNone(pos)
             THEN [ret |-> None, idx |-> None, perm |-> q]
             ELSE LET c == CollectVals(q.vals, pos.val, <<>>)
                  IN  [ret |-> c.ret, idx |-> pos,
                       perm |-> [q EXCEPT !.vals = c.vals]]

\* Permutations::size_hint: (lower, upper)
size_hint(state) ==
    CASE state.tag \in {"StartUnknownLen", "OngoingUnknownLen"} ->
           <<ToUsize(0), None>>
      [] state.tag = "Complete" ->
           LET r == remaining(state.cs)
           IN  IF r.tag = "Known"
               THEN <<r.count, Some(r.count)>>
               ELSE <<UsizeMAX, None>>
      [] OTHER -> <<ToUsize(0), Some(ToUsize(0))>>

\* ------------------------------------------------------------- MultiProduct
\* MultiProductIter { iter, iter_orig }: a cursor is the items it has left
MultiProductIter(items) == [iter |-> items, iter_orig |-> items]

\* multi_cartesian_product(iters)
multi_cartesian_product(digits) ==
    [iters |-> [d \in 1..Len(digits) |-> MultiProductIter(digits[d])],
     cur |-> None]

\* initial_iteration keeping whatever it collected, whatever its length
RECURSIVE initial_iteration_NoLenCheck(_, _, _)
initial_iteration_NoLenCheck(multi_iters, d, initial) ==
    IF d > Len(multi_iters)
    THEN [cur |-> Some(initial), iters |-> multi_iters, pulled |-> 1..Len(multi_iters)]
    ELSE IF multi_iters[d].iter = <<>>
         THEN [cur |-> Some(initial), iters |-> multi_iters, pulled |-> 1..d]
         ELSE initial_iteration_NoLenCheck(
                  [multi_iters EXCEPT ![d].iter = Tail(@)], d + 1,
                  Append(initial, Head(multi_iters[d].iter)))

\* initial_iteration, at digit d with `initial` collected so far: each digit's
\* iter.next() in turn, up to and including the first that gives None
\* (while_some); Some(initial) only if every digit gave an item.
\* pulled: the digits whose iter.next() was called (ghost).
RECURSIVE initial_iteration(_, _, _)
initial_iteration(multi_iters, d, initial) ==
    IF d > Len(multi_iters)
    THEN [cur |-> Some(initial), iters |-> multi_iters, pulled |-> 1..Len(multi_iters)]
    ELSE IF multi_iters[d].iter = <<>>
         THEN [cur |-> None, iters |-> multi_iters, pulled |-> 1..d]
         ELSE initial_iteration([multi_iters EXCEPT ![d].iter = Tail(@)], d + 1,
                                Append(initial, Head(multi_iters[d].iter)))

\* the reset left out
ResetIter_Forgotten(multi_iter) == multi_iter
\* the reset leaving the cursor one item past the start
ResetIter_SkipFirst(multi_iter) ==
    [multi_iter EXCEPT !.iter = IF multi_iter.iter_orig = <<>> THEN <<>>
                                ELSE Tail(multi_iter.iter_orig)]
\* last.iter = last.iter_orig.clone()
ResetIter(multi_iter) == [multi_iter EXCEPT !.iter = multi_iter.iter_orig]

\* iterate_last on the first len digits (and the first len items of curs)
RECURSIVE iterate_last(_, _, _)
iterate_last(multi_iters, curs, len) ==
    IF len = 0
    THEN [ok |-> FALSE, iters |-> multi_iters, curs |-> curs, pulled |-> {}]
    ELSE IF multi_iters[len].iter # <<>>
         THEN [ok |-> TRUE,
               iters |-> [multi_iters EXCEPT ![len].iter = Tail(@)],
               curs |-> [curs EXCEPT ![len] = Head(multi_iters[len].iter)],
               pulled |-> {len}]
         ELSE LET r == iterate_last(
                           [multi_iters EXCEPT ![len] = ResetIter(@)], curs, len - 1)
              IN  IF ~r.ok
                  THEN [r EXCEPT !.pulled = @ \cup {len}]
                  ELSE IF r.iters[len].iter = <<>>
                       THEN [r EXCEPT !.ok = FALSE, !.pulled = @ \cup {len}]
                       ELSE [ok |-> TRUE,
                             iters |-> [r.iters EXCEPT ![len].iter = Tail(@)],
                             curs |-> [r.curs EXCEPT ![len] = Head(r.iters[len].iter)],
                             pulled |-> r.pulled \cup {len}]

\* advance without the early return for an empty list of digits
MultiProductAdvance_NoEmptyCheck(mp) ==
    IF IsNone(mp.cur)
    THEN LET r == initial_iteration(mp.iters, 1, <<>>)
         IN  [mp |-> [iters |-> r.iters, cur |-> r.cur], pulled |-> r.pulled]
    ELSE LET r == iterate_last(mp.iters, mp.cur.val, Len(mp.iters))
             finished == ~r.ok
         IN  [mp |-> [iters |-> r.iters,
                      cur |-> IF finished THEN None ELSE Some(r.curs)],
              pulled |-> r.pulled]

\* MultiProduct::advance
MultiProductAdvance(mp) ==
    IF Len(mp.iters) = 0
    THEN [mp |-> mp, pulled |-> {}]
    ELSE IF IsNone(mp.cur)
         THEN LET r == initial_iteration(mp.iters, 1, <<>>)
              IN  [mp |-> [iters |-> r.iters, cur |-> r.cur], pulled |-> r.pulled]
         ELSE LET r == iterate_last(mp.iters, mp.cur.val, Len(mp.iters))
                  finished == ~r.ok
              IN  [mp |-> [iters |-> r.iters,
                           cur |-> IF finished THEN None ELSE Some(r.curs)],
                   pulled |-> r.pulled]

\* MultiProduct::next
MultiProductNext(mp) ==
    LET a == MultiProductAdvance(mp)
    IN  [ret |-> a.mp.cur, mp |-> a.mp, pulled |-> a.pulled]

\* in_progress treating every state as not in progress
in_progress_Never(mp) == FALSE
\* MultiProduct::in_progress
in_progress(mp) == IsSome(mp.cur)

\* a * m + c on usize with the plain operators `*` and `+`: when the result
\* does not fit, a build with overflow checks panics and a build without them
\* keeps the low UsizeBits bits
UncheckedMulAdd(a, m, c, overflow_checks) ==
    LET w == MulAdd(a, m, c, LimbBase)
    IN  IF Len(w) <= UsizeLimbs THEN Some(w)
        ELSE IF overflow_checks THEN Panic
        ELSE Some(SubSeq(w, 1, UsizeLimbs))

\* the folds of _count over iters, from digit d on: acc * iter.count() when
\* not in progress, acc * iter_orig.count() + iter.count() when in progress
RECURSIVE CountFold(_, _, _, _, _)
CountFold(iters, d, acc, progress, overflow_checks) ==
    IF d > Len(iters) \/ acc = <<>>
    THEN Some(acc)
    ELSE LET total_count == Len(iters[d].iter_orig)
             cur_count == Len(iters[d].iter)
             next_acc == IF progress
                         THEN UncheckedMulAdd(acc, total_count, cur_count,
                                              overflow_checks)
                         ELSE UncheckedMulAdd(acc, cur_count, 0, overflow_checks)
         IN  IF IsPanic(next_acc)
             THEN Panic
             ELSE CountFold(iters, d + 1, next_acc.val, progress, overflow_checks)

\* MultiProduct::_count (count() of a clone: self is consumed)
MultiProductCount(mp, overflow_checks) ==
    IF Len(mp.iters) = 0
    THEN Some(ToUsize(0))
    ELSE IF ~in_progress(mp)
         THEN CountFold(mp.iters, 1, ToUsize(1), FALSE, overflow_checks)
         ELSE CountFold(mp.iters, 1, ToUsize(0), TRUE, overflow_checks)

\* size_hint::mul and size_hint::add with the size hint (len, Some(len)) of a
\* cursor that knows its length: the lower bound saturates, the upper bound
\* is lost on overflow
size_hint_mul(a, len) ==
    LET lo == checked_mul(a[1], len)
    IN  << IF IsSome(lo) THEN lo.val ELSE UsizeMAX,
           IF IsSome(a[2]) THEN checked_mul(a[2].val, len) ELSE None >>
size_hint_add(a, len) ==
    LET lo == checked_add(a[1], len)
    IN  << IF IsSome(lo) THEN lo.val ELSE UsizeMAX,
           IF IsSome(a[2]) THEN checked_add(a[2].val, len) ELSE None >>

\* the folds of _size_hint over iters, from digit d on
RECURSIVE SizeHintFold(_, _, _, _)
SizeHintFold(iters, d, acc, progress) ==
    IF d > Len(iters) \/ acc = <<>>
    THEN acc
    ELSE LET cur_size == Len(iters[d].iter)
             total_size == Len(iters[d].iter_orig)
         IN  SizeHintFold(iters, d + 1,
                          IF progress
                          THEN size_hint_add(size_hint_mul(acc, total_size), cur_size)
                          ELSE size_hint_mul(acc, cur_size),
                          progress)

\* MultiProduct::_size_hint
MultiProductSizeHint(mp) ==
    IF Len(mp.iters) = 0
    THEN <<ToUsize(0), Some(ToUsize(0))>>
    ELSE IF ~in_progress(mp)
         THEN SizeHintFold(mp.iters, 1, <<ToUsize(1), Some(ToUsize(1))>>, FALSE)
         ELSE SizeHintFold(mp.iters, 1, <<ToUsize(0), Some(ToUsize(0))>>, TRUE)

\* the map/while_some/collect of last over iters, from digit d on: each live
\* cursor's last(), up to the first cursor that has no item left
RECURSIVE LastsFold(_, _, _)
LastsFold(iters, d, lasts) ==
    IF d > Len(iters) \/ iters[d].iter = <<>>
    THEN lasts
    ELSE LastsFold(iters, d + 1,
                   Append(lasts, iters[d].iter[Len(iters[d].iter)]))

\* MultiProduct::last (of a clone: self is consumed)
MultiProductLast(mp) ==
    LET iter_count == Len(mp.iters)
        lasts == LastsFold(mp.iters, 1, <<>>)
    IN  IF Len(lasts) = iter_count THEN Some(lasts) ELSE None

\* ------------------------------------------------------------- MultiProductRef
\* multi_cartesian_product_ref(iters)
multi_cartesian_product_ref(digits) ==
    [iters |-> [d \in 1..Len(digits) |-> MultiProductIter(digits[d])],
     cur |-> None]

\* MultiProductRef::initial_iteration, at digit d with `initial` collected so
\* far
RECURSIVE ref_initial_iteration(_, _, _)
ref_initial_iteration(multi_iters, d, initial) ==
    IF d > Len(multi_iters)
    THEN [cur |-> Some(initial), iters |-> multi_iters]
    ELSE IF multi_iters[d].iter = <<>>
         THEN [cur |-> None, iters |-> multi_iters]
         ELSE ref_initial_iteration([multi_iters EXCEPT ![d].iter = Tail(@)],
                                    d + 1,
                                    Append(initial, Head(multi_iters[d].iter)))

\* MultiProductRef::iterate_last on the first len digits (and the first len
\* items of curs): an exhausted digit is reset only after the carry to its
\* left has succeeded
RECURSIVE ref_iterate_last(_, _, _)
ref_iterate_last(multi_iters, curs, len) ==
    IF len = 0
    THEN [ok |-> FALSE, iters |-> multi_iters, curs |-> curs]
    ELSE IF multi_iters[len].iter # <<>>
         THEN [ok |-> TRUE,
               iters |-> [multi_iters EXCEPT ![len].iter = Tail(@)],
               curs |-> [curs EXCEPT ![len] = Head(multi_iters[len].iter)]]
         ELSE LET r == ref_iterate_last(multi_iters, curs, len - 1)
                  orig == multi_iters[len].iter_orig
              IN  IF ~r.ok
                  THEN r
                  ELSE IF orig = <<>>
                       THEN [ok |-> FALSE,
                             iters |-> [r.iters EXCEPT ![len].iter = orig],
                             curs |-> r.curs]
                       ELSE [ok |-> TRUE,
                             iters |-> [r.iters EXCEPT ![len].iter = Tail(orig)],
                             curs |-> [r.curs EXCEPT ![len] = Head(orig)]]

\* MultiProductRef::next: when iterate_last fails, None is returned and cur
\* stays as it is
MultiProductRefNext(mpr) ==
    IF IsNone(mpr.cur)
    THEN LET r == ref_initial_iteration(mpr.iters, 1, <<>>)
         IN  [ret |-> r.cur, mp |-> [iters |-> r.iters, cur |-> r.cur]]
    ELSE LET r == ref_iterate_last(mpr.iters, mpr.cur.val, Len(mpr.iters))
         IN  [ret |-> IF r.ok THEN Some(r.curs) ELSE None,
              mp |-> [iters |-> r.iters, cur |-> Some(r.curs)]]

\* ------------------------------------------------------------- state
VARIABLES
    src,      \* the items the producer yields, in order (construction input)
    k0,       \* the k handed to permutations()
    perm,     \* the Permutations value: [vals, state]
    ret,      \* what the last next() returned
    hist,     \* the items returned in this round (since the None before the
              \* latest item), each with the source positions it was read from
    nones,    \* how many times next() has returned None
    calls,    \* how many times next() has been called
    lb,       \* a LazyBuffer used on its own
    got,      \* what its last get() returned
    reqs,     \* the indices requested of it so far, in order
    cs0,      \* the (n, k) a CompleteState used on its own started from
    cstate,   \* that CompleteState
    chist,    \* indices[0..k] of its Ongoing states in this round
    cnones,   \* how many times it has returned to Start
    csteps,   \* how many times it has been advanced
    rem,      \* what the last remaining() returned for cstate
    digits,   \* the digit sequences handed to multi_cartesian_product()
    mp,       \* the MultiProduct value: [iters, cur]
    mpret,    \* what the last MultiProduct::next() returned
    mpcount,  \* how many items it returned in this round
    mpnones,  \* how many times it has returned None
    mpcalls,  \* how many times it has been called
    pulled,   \* the digits whose iter.next() the last call invoked
    cnt,      \* what the last count() of a clone returned, and in which build
    mpref,    \* a MultiProductRef over the same digits: [iters, cur]
    refret    \* what the last MultiProductRef::next() returned

permVars == <<src, k0, perm, ret, hist, nones, calls>>
bufVars == <<lb, got, reqs>>
complVars == <<cs0, cstate, chist, cnones, csteps, rem>>
mpVars == <<digits, mp, mpret, mpcount, mpnones, mpcalls, pulled, cnt, mpref, refret>>
vars == <<permVars, bufVars, complVars, mpVars>>

\* the parts of the state a specification does not use
Unused == <<>>
PermIdle ==
    /\ k0 = 0 /\ perm = Unused /\ ret = NotCalled /\ hist = <<>>
    /\ nones = 0 /\ calls = 0
BufIdle == lb = Unused /\ got = NotCalled /\ reqs = <<>>
ComplIdle ==
    /\ cs0 = Unused /\ cstate = Unused /\ chist = <<>> /\ cnones = 0
    /\ csteps = 0 /\ rem = NotCalled
MpIdle ==
    /\ digits = Unused /\ mp = Unused /\ mpret = NotCalled /\ mpcount = 0
    /\ mpnones = 0 /\ mpcalls = 0 /\ pulled = {} /\ cnt = NotCalled
    /\ mpref = Unused /\ refret = NotCalled

\* ------------------------------------------------------------- Permutations run
Init ==
    /\ src \in Producers
    /\ k0 \in 0..(MaxN + 1)
    /\ perm = permutations(src, k0)
    /\ ret = NotCalled
    /\ hist = <<>>
    /\ nones = 0
    /\ calls = 0
    /\ BufIdle
    /\ ComplIdle
    /\ MpIdle

\* one call of Permutations::next
CallNext ==
    /\ nones < MaxRounds
    /\ ~IsPanic(ret)
    /\ LET r == PermNext(perm)
           item == [pos |-> r.idx.val, item |-> r.ret.val]
       IN  /\ perm' = r.perm
           /\ ret' = r.ret
           /\ hist' = IF ~IsSome(r.ret) THEN hist
                      ELSE IF IsNone(ret) THEN <<item>> ELSE Append(hist, item)
           /\ nones' = IF IsNone(r.ret) THEN nones + 1 ELSE nones
    /\ calls' = calls + 1
    /\ UNCHANGED <<src, k0, bufVars, complVars, mpVars>>

Next == CallNext

Spec == Init /\ [][Next]_vars

\* ------------------------------------------------------------- LazyBuffer run
InitBuffer ==
    /\ src \in Producers
    /\ lb = LazyBufferFromSource(src)
    /\ got = NotCalled
    /\ reqs = <<>>
    /\ PermIdle
    /\ ComplIdle
    /\ MpIdle

\* one call of LazyBuffer::get, with any index
CallGet ==
    /\ Len(reqs) < MaxGets
    /\ \E index \in 0..(MaxN + 1) :
          LET g == LazyBufferGet(lb, index)
          IN  /\ lb' = g.vals
              /\ got' = g.ret
              /\ reqs' = Append(reqs, index)
    /\ UNCHANGED <<permVars, complVars, mpVars>>

NextBuffer == CallGet

SpecBuffer == InitBuffer /\ [][NextBuffer]_vars

\* ------------------------------------------------------------- CompleteState run
\* one call of CompleteState::advance
AdvanceCState ==
    /\ LET c == CompleteAdvance(cstate)
           prefix == SubSeq(c.indices, 1, Len(c.cycles))
       IN  /\ cstate' = c
           /\ chist' = IF c.tag # "Ongoing" THEN chist
                       ELSE IF cstate.tag = "Start" THEN <<prefix>>
                       ELSE Append(chist, prefix)
           /\ cnones' = IF c.tag = "Start" THEN cnones + 1 ELSE cnones
    /\ csteps' = csteps + 1
    /\ rem' = NotCalled
    /\ UNCHANGED <<cs0, permVars, bufVars, mpVars>>

\* ... while following whole rounds
CompleteStep == cnones < MaxRounds /\ AdvanceCState
\* ... while following the first advances only
CompleteStepFew == csteps < MaxRemSteps /\ AdvanceCState

\* one call of CompleteState::remaining
QueryRemaining ==
    /\ rem' = Some(remaining(cstate))
    /\ UNCHANGED <<cs0, cstate, chist, cnones, csteps, permVars, bufVars, mpVars>>

\* Start{n, k} for every 0 <= k <= n <= MaxN, followed through MaxRounds rounds
InitComplete ==
    /\ \E n \in 0..MaxN : \E k \in 0..n :
          /\ cs0 = [n |-> n, k |-> k]
          /\ cstate = CompleteStart(n, k)
    /\ chist = <<>> /\ cnones = 0 /\ csteps = 0 /\ rem = NotCalled
    /\ src = <<>>
    /\ PermIdle
    /\ BufIdle
    /\ MpIdle

NextComplete == CompleteStep

SpecComplete == InitComplete /\ [][NextComplete]_vars

\* Start{n, k} for every 0 <= k <= n <= MaxRemN, followed for MaxRemSteps advances
InitRemaining ==
    /\ \E n \in 0..MaxRemN : \E k \in 0..n :
          /\ cs0 = [n |-> n, k |-> k]
          /\ cstate = CompleteStart(n, k)
    /\ chist = <<>> /\ cnones = 0 /\ csteps = 0 /\ rem = NotCalled
    /\ src = <<>>
    /\ PermIdle
    /\ BufIdle
    /\ MpIdle

NextRemaining == CompleteStepFew \/ QueryRemaining

SpecRemaining == InitRemaining /\ [][NextRemaining]_vars

\* ------------------------------------------------------------- MultiProduct run
\* digit d of length len holds the items <<d, 1>>, ..., <<d, len>>
DigitItems(d, len) == [j \in 1..len |-> <<d, j>>]

InitMulti ==
    /\ \E m \in 0..MaxDigits : \E lens \in [1..m -> 0..MaxLen] :
          digits = [d \in 1..m |-> DigitItems(d, lens[d])]
    /\ mp = multi_cartesian_product(digits)
    /\ mpret = NotCalled
    /\ mpcount = 0 /\ mpnones = 0 /\ mpcalls = 0
    /\ pulled = {}
    /\ cnt = NotCalled
    /\ mpref = Unused /\ refret = NotCalled
    /\ src = <<>>
    /\ PermIdle
    /\ BufIdle
    /\ ComplIdle

\* one call of MultiProduct::next
DoMultiNext ==
    /\ LET r == MultiProductNext(mp)
       IN  /\ mp' = r.mp
           /\ mpret' = r.ret
           /\ pulled' = r.pulled
           /\ mpcount' = IF IsNone(r.ret) THEN mpcount
                         ELSE IF IsNone(mpret) THEN 1 ELSE mpcount + 1
           /\ mpnones' = IF IsNone(r.ret) THEN mpnones + 1 ELSE mpnones
    /\ mpcalls' = mpcalls + 1
    /\ cnt' = NotCalled
    /\ UNCHANGED <<digits, permVars, bufVars, complVars>>

\* ... while following whole rounds
CallMultiNext ==
    mpnones < MaxRounds /\ DoMultiNext /\ UNCHANGED <<mpref, refret>>
\* ... while following the first calls only
CallMultiNextFew ==
    mpcalls < MaxCountCalls /\ DoMultiNext /\ UNCHANGED <<mpref, refret>>

NextMulti == CallMultiNext

SpecMulti == InitMulti /\ [][NextMulti]_vars

\* ------------------------------------------------------------- count() run
\* one call of count() on a clone of the product, in a build with or without
\* overflow checks
CallCount ==
    /\ \E overflow_checks \in BOOLEAN :
          cnt' = [overflow_checks |-> overflow_checks,
                  ret |-> MultiProductCount(mp, overflow_checks)]
    /\ UNCHANGED <<digits, mp, mpret, mpcount, mpnones, mpcalls, pulled,
                   mpref, refret, permVars, bufVars, complVars>>

\* up to MaxCountDigits digits, all of one length up to MaxCountLen
InitCount ==
    /\ \E m \in 0..MaxCountDigits : \E len \in 0..MaxCountLen :
          digits = [d \in 1..m |-> DigitItems(d, len)]
    /\ mp = multi_cartesian_product(digits)
    /\ mpret = NotCalled
    /\ mpcount = 0 /\ mpnones = 0 /\ mpcalls = 0
    /\ pulled = {}
    /\ cnt = NotCalled
    /\ mpref = Unused /\ refret = NotCalled
    /\ src = <<>>
    /\ PermIdle
    /\ BufIdle
    /\ ComplIdle

NextCount == CallMultiNextFew \/ CallCount

SpecCount == InitCount /\ [][NextCount]_vars

\* ------------------------------------------------------------- both products
\* one call of MultiProductRef::next
DoRefNext ==
    LET r == MultiProductRefNext(mpref)
    IN  /\ mpref' = r.mp
        /\ refret' = r.ret

\* next() called on both products
CallBothNext == mpnones < MaxRounds /\ DoMultiNext /\ DoRefNext

\* a MultiProduct and a MultiProductRef built over the same digits
InitBoth ==
    /\ \E m \in 0..MaxDigits : \E lens \in [1..m -> 0..MaxLen] :
          digits = [d \in 1..m |-> DigitItems(d, lens[d])]
    /\ mp = multi_cartesian_product(digits)
    /\ mpref = multi_cartesian_product_ref(digits)
    /\ mpret = NotCalled /\ refret = NotCalled
    /\ mpcount = 0 /\ mpnones = 0 /\ mpcalls = 0
    /\ pulled = {}
    /\ cnt = NotCalled
    /\ src = <<>>
    /\ PermIdle
    /\ BufIdle
    /\ ComplIdle

NextBoth == CallBothNext

SpecBoth == InitBoth /\ [][NextBoth]_vars

\* ------------------------------------------------------------- claims: helpers
\* indices[0..k] of the Ongoing states CompleteState passes through from cs
\* until it next leaves Ongoing
RECURSIVE EnumFrom(_, _)
EnumFrom(cs, acc) ==
    LET c == CompleteAdvance(cs)
    IN  IF c.tag # "Ongoing" \/ Len(acc) < 0
        THEN acc
        ELSE EnumFrom(c, Append(acc, SubSeq(c.indices, 1, Len(c.cycles))))
ReferenceTuples(n, k) == EnumFrom(CompleteStart(n, k), <<>>)

HistPositions == [j \in 1..Len(hist) |-> hist[j].pos]
HistItems == [j \in 1..Len(hist) |-> hist[j].item]

\* a < b in lexicographic order, for sequences of one length
LexLess(a, b) ==
    \E i \in 1..Len(a) : a[i] < b[i] /\ \A j \in 1..(i - 1) : a[j] = b[j]

\* the number of k-permutations of n items: n (n - 1) ... (n - k + 1)
RECURSIVE FallingFactorial(_, _)
FallingFactorial(n, k) == IF k = 0 THEN 1 ELSE n * FallingFactorial(n - 1, k - 1)

\* the k-tuples of pairwise distinct indices drawn from 0..n-1
KTuples(n, k) ==
    { t \in [1..k -> 0..(n - 1)] : \A i, j \in 1..k : i # j => t[i] # t[j] }

SeqMax(q) == CHOOSE m \in { q[i] : i \in 1..Len(q) } : \A i \in 1..Len(q) : q[i] <= m

\* ------------------------------------------------------------- C1
\* C1: for a producer of n items and 1 <= k <= n, the position tuples that
\* Permutations::next returns up to its first None (the unknown-length phase,
\* then the replayed known-length phase) are, tuple for tuple and in order,
\* those of the CompleteState engine run from Start{n, k} until it returns to
\* Start: nothing is skipped or repeated at the seam.
C1_SameAsKnownLength ==
    (1 <= k0 /\ k0 <= Len(src)) =>
        LET ref == ReferenceTuples(Len(src), k0)
        IN  /\ ~IsPanic(ret)
            /\ nones = 0 =>
                 /\ Len(hist) <= Len(ref)
                 /\ \A j \in 1..Len(hist) : hist[j].pos = ref[j]
            /\ (nones = 1 /\ IsNone(ret)) => HistPositions = ref

\* the first None is reached after the seam was crossed (n = 4, k = 2: three
\* tuples come from the unknown-length phase, nine from the replayed engine)
C1_Witness ==
    /\ k0 = 2 /\ Len(src) = 4
    /\ nones = 1 /\ IsNone(ret)
    /\ perm.state.tag = "Complete"
    /\ Len(hist) = 12

\* ------------------------------------------------------------- C2
\* C2: for 0 <= k <= n, advancing CompleteState from Start{n, k} until it first
\* returns to Start passes through exactly n!/(n-k)! Ongoing states, and their
\* prefixes indices[0..k] are pairwise distinct k-tuples of pairwise distinct
\* indices of 0..n: every such k-tuple appears exactly once.
C2_AllKTuplesOnce ==
    LET n == cs0.n
        k == cs0.k
        seen == { chist[j] : j \in 1..Len(chist) }
    IN  /\ cstate.tag \in {"Start", "Ongoing"}
        /\ seen \subseteq KTuples(n, k)
        /\ Cardinality(seen) = Len(chist)
        /\ (cstate.tag = "Start" /\ cnones >= 1) =>
              /\ Len(chist) = FallingFactorial(n, k)
              /\ seen = KTuples(n, k)

\* a full round of n = 4, k = 3 has been enumerated
C2_Witness ==
    /\ cs0 = [n |-> 4, k |-> 3]
    /\ cstate.tag = "Start" /\ cnones = 1
    /\ Len(chist) = 24

\* ------------------------------------------------------------- C3
\* C3: Permutations returns its tuples in strictly increasing lexicographic
\* order of source positions (not of values); over [a, b, c, d] with k = 2 it
\* returns exactly 12 tuples, beginning [a,b], [a,c], [a,d], [b,a].
C3_LexicographicOrder ==
    /\ \A j \in 1..(Len(hist) - 1) : LexLess(hist[j].pos, hist[j + 1].pos)
    /\ (src = <<"a", "b", "c", "d">> /\ k0 = 2) =>
          LET first == << <<"a", "b">>, <<"a", "c">>, <<"a", "d">>, <<"b", "a">> >>
          IN  /\ \A j \in 1..Len(hist) : j <= 4 => hist[j].item = first[j]
              /\ (nones >= 1 /\ IsNone(ret)) => Len(hist) = 12

\* the twelve tuples of [a, b, c, d], k = 2 have been returned
C3_Witness ==
    /\ src = <<"a", "b", "c", "d">> /\ k0 = 2
    /\ nones = 1 /\ IsNone(ret)
    /\ Len(hist) = 12
    /\ hist[4].item = <<"b", "a">>

\* ------------------------------------------------------------- C4
\* C4: with k = 0, whatever the producer (also an empty one), the first next()
\* returns the empty tuple and the second returns None: exactly one tuple, the
\* empty one, comes before the first None.
C4_ZeroKOneEmptyTuple ==
    k0 = 0 =>
        /\ calls = 1 => (IsSome(ret) /\ ret.val = <<>>)
        /\ calls = 2 => IsNone(ret)
        /\ (nones = 1 /\ IsNone(ret)) => HistItems = << <<>> >>

\* k = 0 over an empty producer, after the second call
C4_Witness ==
    /\ k0 = 0 /\ src = <<>>
    /\ calls = 2 /\ IsNone(ret)
    /\ HistItems = << <<>> >>

\* ------------------------------------------------------------- C5
\* C5: with k >= 1 and a producer of n < k items, permutations(iter, k) starts
\* in Empty and stays there, every next() returns None, size_hint is
\* (0, Some(0)), and no tuple is produced.
C5_TooFewItemsIsEmpty ==
    (k0 >= 1 /\ Len(src) < k0) =>
        /\ perm.state = Empty
        /\ calls > 0 => IsNone(ret)
        /\ hist = <<>>
        /\ size_hint(perm.state) = <<ToUsize(0), Some(ToUsize(0))>>

\* k = 3 over two items, after two calls of next()
C5_Witness ==
    /\ k0 = 3 /\ Len(src) = 2
    /\ calls = 2 /\ IsNone(ret)
    /\ perm.state = Empty

\* ------------------------------------------------------------- C8
\* C8: whatever indices get() is called with, in whatever order, each call
\* returns Some(s[i]) when i < len(s) and None when i >= len(s), as indexing
\* the fully drained producer s would.
C8_GetIsIndexing ==
    reqs # <<>> =>
        LET index == reqs[Len(reqs)]
        IN  /\ index < Len(src) => (IsSome(got) /\ got.val = src[index + 1])
            /\ index >= Len(src) => IsNone(got)

\* a later call asks for an earlier index than the one before it
C8_Witness ==
    /\ Len(reqs) = 3 /\ reqs[1] = 2 /\ reqs[2] = 0 /\ reqs[3] = 1
    /\ src = <<"a", "b", "a">>
    /\ IsSome(got) /\ got.val = "b"

\* ------------------------------------------------------------- C9
\* C9: after any sequence of get() calls the producer's next() has been called
\* at most (highest index requested) + 1 times.
C9_PullsBounded ==
    reqs # <<>> => lb.pulls <= SeqMax(reqs) + 1

\* ------------------------------------------------------------- C10
\* Exact natural numbers for the claim's side: little-endian digits of base
\* 10^4 without leading zeros, as long as need be.
DecBase == 10^4
RECURSIVE Strip(_)
Strip(x) ==
    IF x = <<>> THEN <<>>
    ELSE IF x[Len(x)] = 0 THEN Strip(SubSeq(x, 1, Len(x) - 1)) ELSE x
DecMul(x, m) == Strip(MulAdd(x, m, 0, DecBase))
RECURSIVE DecAddCarry(_, _, _)
DecAddCarry(x, y, c) ==
    IF x = <<>> /\ y = <<>>
    THEN IF c = 0 THEN <<>> ELSE <<c>>
    ELSE LET t == (IF x = <<>> THEN 0 ELSE Head(x))
                  + (IF y = <<>> THEN 0 ELSE Head(y)) + c
         IN  <<t % DecBase>> \o DecAddCarry(IF x = <<>> THEN <<>> ELSE Tail(x),
                                            IF y = <<>> THEN <<>> ELSE Tail(y),
                                            t \div DecBase)
DecAdd(x, y) == Strip(DecAddCarry(x, y, 0))
\* acc * lo * (lo + 1) * ... * hi
RECURSIVE DecProdFrom(_, _, _)
DecProdFrom(acc, lo, hi) ==
    IF lo > hi \/ acc = <<>> THEN acc ELSE DecProdFrom(DecMul(acc, lo), lo + 1, hi)
\* lo * (lo + 1) * ... * hi (1 when lo > hi)
DecProdRange(lo, hi) == DecProdFrom(<<1>>, lo, hi)
DecLessEq(x, y) ==
    IF Len(x) # Len(y)
    THEN Len(x) < Len(y)
    ELSE \/ x = y
         \/ \E i \in 1..Len(x) : x[i] < y[i] /\ \A j \in (i + 1)..Len(x) : x[j] = y[j]
\* the number a usize (limbs) stands for
RECURSIVE ToDecFrom(_, _, _)
ToDecFrom(limbs, i, acc) ==
    IF i = 0 THEN acc
    ELSE ToDecFrom(limbs, i - 1, Strip(MulAdd(acc, LimbBase, limbs[i], DecBase)))
ToDec(limbs) == ToDecFrom(limbs, Len(limbs), <<>>)
\* 2^64 - 1 = 18446744073709551615
UsizeMaxDec == <<1615, 955, 737, 6744, 1844>>

\* the exact count the claim speaks of: the falling factorial from Start{n, k},
\* the mixed-radix sum  SUM_i cycles[i] * PROD_{j > i} (n - j)  from Ongoing
\* (from the last position i down: weight = PROD_{j > i} (n - j), and sum is the
\* part of the sum to the right of i)
RECURSIVE MixedRadixSum(_, _, _, _, _)
MixedRadixSum(n, cycles, i, weight, sum) ==
    IF i = 0 \/ weight = <<>> \/ Len(sum) < 0
    THEN sum
    ELSE MixedRadixSum(n, cycles, i - 1, DecMul(weight, n - i + 1),
                       DecAdd(sum, DecMul(weight, cycles[i])))
ExactCount(cs) ==
    IF cs.tag = "Start"
    THEN DecProdRange(cs.n - cs.k + 1, cs.n)
    ELSE MixedRadixSum(Len(cs.indices), cs.cycles, Len(cs.cycles), <<1>>, <<>>)

\* C10: remaining() of a known-length state is overflow-checked: when the exact
\* count (falling factorial from Start{n, k}, mixed-radix sum from Ongoing)
\* exceeds usize::MAX it returns Overflow and size_hint has no upper bound;
\* when it fits it returns Known(exact count), never a wrapped number.
\* n = 21, k = 21 with 64-bit words reports no upper bound.
C10_RemainingOverflowChecked ==
    IsSome(rem) =>
        LET exact == ExactCount(cstate)
            r == rem.val
            hint == size_hint(Complete(cstate))
        IN  /\ ToDec(UsizeMAX) = UsizeMaxDec
            /\ IF DecLessEq(exact, UsizeMaxDec)
               THEN /\ r.tag = "Known"
                    /\ ToDec(r.count) = exact
                    /\ hint = <<r.count, Some(r.count)>>
               ELSE /\ r.tag = "Overflow"
                    /\ hint = <<UsizeMAX, None>>
            /\ cstate = CompleteStart(21, 21) =>
                  (r.tag = "Overflow" /\ IsNone(hint[2]))

\* remaining() was asked of Start{21, 21}, whose count 21! is above 2^64 - 1
C10_Witness ==
    /\ cstate = CompleteStart(21, 21)
    /\ IsSome(rem)
    /\ rem.val.tag = "Overflow"
    /\ ~DecLessEq(ExactCount(cstate), UsizeMaxDec)

\* ------------------------------------------------------------- C6
\* the product of the lengths of digits d, d + 1, ...
RECURSIVE SuffixProduct(_)
SuffixProduct(d) ==
    IF d > Len(digits) THEN 1 ELSE Len(digits[d]) * SuffixProduct(d + 1)
\* the tuple a mixed-radix counter with radices L0..Lm shows at count j, the
\* last digit varying fastest
MixedRadixTuple(j) ==
    [d \in 1..Len(digits) |->
        digits[d][((j \div SuffixProduct(d + 1)) % Len(digits[d])) + 1]]
AllDigitsNonEmpty == \A d \in 1..Len(digits) : digits[d] # <<>>

\* C6: for one or more digit sequences, all non-empty, MultiProduct::next
\* returns exactly the product of their lengths many tuples before its first
\* None, and the j-th (from 0) is the mixed-radix representation of j, the last
\* digit varying fastest; [1,2] x [x,y,z] gives (1,x),(1,y),(1,z),(2,x),...
C6_MixedRadixOrder ==
    (Len(digits) >= 1 /\ AllDigitsNonEmpty) =>
        /\ (mpnones = 0 /\ IsSome(mpret)) =>
              /\ mpcount <= SuffixProduct(1)
              /\ mpret.val = MixedRadixTuple(mpcount - 1)
        /\ (mpnones = 1 /\ IsNone(mpret)) => mpcount = SuffixProduct(1)

\* the product of a digit of 2 items and a digit of 3 items has returned its
\* 6 tuples and then None
C6_Witness ==
    /\ Len(digits) = 2 /\ Len(digits[1]) = 2 /\ Len(digits[2]) = 3
    /\ mpnones = 1 /\ IsNone(mpret)
    /\ mpcount = 6

\* ------------------------------------------------------------- C7
HasEmptyDigit == \E d \in 1..Len(digits) : digits[d] = <<>>
\* the leftmost empty digit
FirstEmpty ==
    CHOOSE e \in 1..Len(digits) :
        digits[e] = <<>> /\ \A d \in 1..(e - 1) : digits[d] # <<>>

\* C7 as stated: with an empty digit sequence in any position, current stays
\* absent after every advance, next() returns None on every call and no tuple
\* is produced, and every digit to the left of the empty one is pulled on each
\* attempt.
C7_AsStated ==
    HasEmptyDigit =>
        /\ IsNone(mp.cur) /\ ~IsSome(mpret) /\ mpcount = 0
        /\ mpcalls > 0 => 1..(FirstEmpty - 1) \subseteq pulled

\* C7 (amended): with an empty digit sequence in any position, current stays
\* absent after every advance, next() returns None on every call and no tuple
\* is produced; each attempt pulls the digits from the left up to and including
\* the first whose cursor gives nothing: on attempt a, digit d (up to the
\* leftmost empty one) is pulled exactly if every digit to its left holds at
\* least a items.
C7_EmptyDigitNeverYields ==
    HasEmptyDigit =>
        /\ IsNone(mp.cur) /\ ~IsSome(mpret) /\ mpcount = 0
        /\ mpcalls > 0 =>
              pulled = { d \in 1..FirstEmpty :
                           \A e \in 1..(d - 1) : Len(digits[e]) >= mpcalls }

\* the second attempt on digits of lengths 1, 2, 0: the first digit is
\* exhausted, so only it is pulled
C7_Witness ==
    /\ Len(digits) = 3
    /\ Len(digits[1]) = 1 /\ Len(digits[2]) = 2 /\ digits[3] = <<>>
    /\ mpcalls = 2 /\ IsNone(mpret)
    /\ pulled = {1}

\* ------------------------------------------------------------- C11
\* next() called on p until it returns None, at most `steps` times: the
\* iterator reached and the number of tuples returned, added to count
RECURSIVE DrainSome(_, _, _)
DrainSome(p, steps, count) ==
    LET r == PermNext(p)
    IN  IF steps = 0 THEN [perm |-> p, count |-> count, done |-> FALSE]
        ELSE IF ~IsSome(r.ret) THEN [perm |-> r.perm, count |-> count, done |-> TRUE]
        ELSE DrainSome(r.perm, steps - 1, count + 1)
\* how many tuples next() returns from p on before it next returns None
\* (counted sixteen calls at a time)
RECURSIVE TuplesBeforeNone(_, _)
TuplesBeforeNone(p, count) ==
    LET x == DrainSome(p, 16, count)
    IN  IF x.done THEN x.count ELSE TuplesBeforeNone(x.perm, x.count)

\* C11: in every reachable state of Permutations, with r the number of tuples
\* that further next() calls return before the next None, size_hint() = (lo, hi)
\* has lo <= r, and r <= hi when hi is present; in a Complete state (whose
\* count fits a usize) lo = hi = r, and from Ongoing{indices, cycles} r is the
\* mixed-radix value of cycles with radix n - i at position i.
C11_SizeHintBrackets ==
    LET r == TuplesBeforeNone(perm, 0)
        hint == size_hint(perm.state)
        lo == ToDec(hint[1])
        exact == ToDec(ToUsize(r))
    IN  /\ DecLessEq(lo, exact)
        /\ IsSome(hint[2]) => DecLessEq(exact, ToDec(hint[2].val))
        /\ perm.state.tag = "Complete" => hint = <<ToUsize(r), Some(ToUsize(r))>>
        /\ (perm.state.tag = "Complete" /\ perm.state.cs.tag = "Ongoing") =>
              ExactCount(perm.state.cs) = exact

\* n = 4, k = 2 past the seam: five tuples returned, seven to come
C11_Witness ==
    /\ k0 = 2 /\ Len(src) = 4
    /\ perm.state.tag = "Complete" /\ perm.state.cs.tag = "Ongoing"
    /\ nones = 0 /\ Len(hist) = 5
    /\ size_hint(perm.state) = <<ToUsize(7), Some(ToUsize(7))>>
    /\ TuplesBeforeNone(perm, 0) = 7

\* ------------------------------------------------------------- C12
\* next() called on m until it returns None, at most `steps` times: the
\* product reached and the number of tuples returned, added to count
RECURSIVE MultiDrainSome(_, _, _)
MultiDrainSome(m, steps, count) ==
    LET r == MultiProductNext(m)
    IN  IF steps = 0 THEN [mp |-> m, count |-> count, done |-> FALSE]
        ELSE IF ~IsSome(r.ret) THEN [mp |-> r.mp, count |-> count, done |-> TRUE]
        ELSE MultiDrainSome(r.mp, steps - 1, count + 1)
\* how many tuples next() returns from m on before it next returns None
\* (counted sixteen calls at a time)
RECURSIVE MultiTuplesBeforeNone(_, _)
MultiTuplesBeforeNone(m, count) ==
    LET x == MultiDrainSome(m, 16, count)
    IN  IF x.done THEN x.count ELSE MultiTuplesBeforeNone(x.mp, x.count)

\* the mixed-radix value of the cursors: each digit's length as the radix,
\* what its cursor has left as the digit, the first digit the most significant
RECURSIVE MixedRadixLeft(_, _)
MixedRadixLeft(d, acc) ==
    IF d > Len(digits) THEN acc
    ELSE MixedRadixLeft(d + 1, acc * Len(digits[d]) + Len(mp.iters[d].iter))

\* C12: in every reachable state of a MultiProduct (not started, in progress
\* after any number of next() calls, exhausted), count() returns exactly the
\* number of tuples that further next() calls return before the next None; in
\* progress this is the mixed-radix value fold(acc * Li + remaining_i) over the
\* digits from left to right.
C12_CountIsTuplesLeft ==
    LET r == MultiTuplesBeforeNone(mp, 0)
    IN  /\ \A overflow_checks \in BOOLEAN :
              MultiProductCount(mp, overflow_checks) = Some(ToUsize(r))
        /\ IsSome(mp.cur) => r = MixedRadixLeft(1, 0)

\* lengths 2, 3, 2 after five tuples: seven are left
C12_Witness ==
    /\ Len(digits) = 3
    /\ Len(digits[1]) = 2 /\ Len(digits[2]) = 3 /\ Len(digits[3]) = 2
    /\ mpnones = 0 /\ mpcount = 5 /\ IsSome(mp.cur)
    /\ MultiProductCount(mp, TRUE) = Some(ToUsize(7))
    /\ MultiTuplesBeforeNone(mp, 0) = 7

\* ------------------------------------------------------------- C13
\* C13: no call of Permutations::next faults, whatever k and the producer: it
\* never panics ("unexpected iterator state", or unwrap of a get() that gave
\* None); the unknown-length states have 1 <= k <= min_n <= buffered items, so
\* every index read is buffered and min_n - 1, n - k + 1 do not underflow;
\* every Complete state is a Start{n, k} or Ongoing with k <= n, reached
\* without an index of CompleteState::advance leaving 0..n; and every
\* position a returned tuple was read from is buffered.
C13_NextNeverFaults ==
    LET state == perm.state
        buffered == Len(perm.vals.buffer)
    IN  /\ ~IsPanic(ret)
        /\ state.tag = "StartUnknownLen" => (1 <= state.k /\ state.k <= buffered)
        /\ state.tag = "OngoingUnknownLen" =>
              (1 <= state.k /\ state.k <= state.min_n /\ state.min_n <= buffered)
        /\ state.tag = "Complete" =>
              /\ state.cs.tag \in {"Start", "Ongoing"}
              /\ state.cs.tag = "Start" =>
                    (state.cs.k <= state.cs.n /\ state.cs.n <= buffered)
              /\ state.cs.tag = "Ongoing" =>
                    /\ Len(state.cs.cycles) <= Len(state.cs.indices)
                    /\ Len(state.cs.indices) <= buffered
                    /\ \A i \in 1..Len(state.cs.indices) :
                          state.cs.indices[i] \in 0..(buffered - 1)
        /\ \A j \in 1..Len(hist) : \A i \in 1..Len(hist[j].pos) :
              hist[j].pos[i] \in 0..(buffered - 1)

\* k = 3 over four items: both phases and the return to Start, twice over
C13_Witness ==
    /\ k0 = 3 /\ Len(src) = 4
    /\ nones = 2 /\ IsNone(ret)
    /\ perm.state = Complete(CompleteStart(4, 3))
    /\ Len(hist) = 24

\* ------------------------------------------------------------- C14
\* C14: in every reachable Ongoing{indices, cycles}, with n = len(indices) and
\* k = len(cycles): k <= n, cycles[i] lies in 0..=n-i-1 for every i < k, and
\* indices is a permutation of 0..n (so indices[0..k] holds k distinct
\* positions).
C14_OngoingInvariants ==
    cstate.tag = "Ongoing" =>
        LET indices == cstate.indices
            cycles == cstate.cycles
            n == Len(indices)
            k == Len(cycles)
        IN  /\ n = cs0.n /\ k = cs0.k
            /\ k <= n
            /\ \A i \in 0..(k - 1) : cycles[i + 1] \in 0..(n - i - 1)
            /\ { indices[i] : i \in 1..n } = 0..(n - 1)
            /\ Cardinality({ indices[i] : i \in 1..k }) = k

\* n = 4, k = 3 in the middle of its second round, the last cycle at zero
C14_Witness ==
    /\ cs0 = [n |-> 4, k |-> 3]
    /\ cstate.tag = "Ongoing" /\ cnones = 1
    /\ cstate.cycles = <<2, 1, 0>>
    /\ cstate.indices = <<1, 2, 3, 0>>

\* ------------------------------------------------------------- C15
\* C15 as stated: each advance from Ongoing scans positions i from k-1 down to
\* 0 and at each position first decrements cycles[i]; if the decremented value
\* is zero it rotates, resets cycles[i] to n - i - 1 and continues leftward;
\* otherwise it swaps indices[i] with indices[n - cycles[i]] using the already
\* decremented cycles[i] and stops.
C15_AsStated ==
    [][cstate.tag = "Ongoing" =>
          cstate' = OngoingLoop_DecrementFirst(cstate.indices, cstate.cycles,
                                               Len(cstate.cycles) - 1)]_vars

\* v reversed
Reverse(v) == [i \in 1..Len(v) |-> v[Len(v) + 1 - i]]
\* The step that tests before it decrements, in closed form.  With j the
\* rightmost position whose cycle is not zero: the positions right of j are
\* reset to n - i - 1 and rotated from the right (which leaves indices[0..=j],
\* then indices[k..n], then indices[j+1..k] reversed), then indices[j] is
\* swapped with indices[n - cycles[j]] and cycles[j] is decremented.  With no
\* such position the state is Start{n, k}.
TestFirstStep(cs) ==
    LET indices == cs.indices
        cycles == cs.cycles
        n == Len(indices)
        k == Len(cycles)
        nonzero == { i \in 0..(k - 1) : cycles[i + 1] # 0 }
    IN  IF nonzero = {}
        THEN CompleteStart(n, k)
        ELSE LET j == CHOOSE i \in nonzero : \A h \in nonzero : h <= i
                 rotated == SubSeq(indices, 1, j + 1) \o SubSeq(indices, k + 1, n)
                            \o Reverse(SubSeq(indices, j + 2, k))
                 swap_index == n - cycles[j + 1]
             IN  CompleteOngoing(
                     [rotated EXCEPT ![j + 1] = rotated[swap_index + 1],
                                     ![swap_index + 1] = rotated[j + 1]],
                     [i \in 1..k |-> IF i - 1 < j THEN cycles[i]
                                     ELSE IF i - 1 = j THEN cycles[i] - 1
                                     ELSE n - (i - 1) - 1])

\* C15 (amended): each advance from Ongoing scans positions i from k-1 down to
\* 0 and at each position tests cycles[i] before changing it: if it is zero it
\* resets cycles[i] to n - i - 1, rotates (removes indices[i] and appends it at
\* the end) and continues leftward; otherwise it swaps indices[i] with
\* indices[n - cycles[i]] using the not yet decremented cycles[i], then
\* decrements cycles[i] and stops; past position 0 the state is Start{n, k}.
C15_TestThenDecrement ==
    [][cstate.tag = "Ongoing" => cstate' = TestFirstStep(cstate)]_vars

\* n = 3, k = 2 after an advance that rotated at position 1 and swapped at 0
C15_Witness ==
    /\ cs0 = [n |-> 3, k |-> 2]
    /\ csteps = 3
    /\ cstate = CompleteOngoing(<<1, 0, 2>>, <<1, 1>>)

\* ------------------------------------------------------------- C16
\* C16 as stated: when extension of the buffer fails in
\* OngoingUnknownLen{k, min_n} (producer exhausted at n = min_n), exactly
\* n - k + 1 tuples have been returned so far, and the known-length state that
\* replaces the unknown-length one is the one obtained from Start{n, k} by
\* exactly n - k + 1 calls of CompleteState::advance.
C16_AsStated ==
    [][(perm.state.tag = "OngoingUnknownLen" /\ perm'.state.tag = "Complete") =>
          LET n == perm.state.min_n
              k == perm.state.k
          IN  /\ n = Len(src)
              /\ Len(hist) = n - k + 1
              /\ perm'.state.cs =
                    CompleteAdvanceTimes(CompleteStart(n, k), n - k + 1)]_vars

\* C16 (amended): when extension of the buffer fails in
\* OngoingUnknownLen{k, min_n} (producer exhausted at n = min_n), exactly
\* n - k + 1 tuples have been returned so far, and the known-length state that
\* replaces the unknown-length one is the one obtained from Start{n, k} by
\* exactly n - k + 2 calls of CompleteState::advance: one for each tuple
\* returned and one for the call in progress, which returns the tuple of the
\* state it installs (or None when that state is Start).
C16_ReplayIsEmittedPlusOne ==
    [][(perm.state.tag = "OngoingUnknownLen" /\ perm'.state.tag = "Complete") =>
          LET n == perm.state.min_n
              k == perm.state.k
              installed == CompleteAdvanceTimes(CompleteStart(n, k), n - k + 2)
          IN  /\ n = Len(src)
              /\ Len(hist) = n - k + 1
              /\ perm'.state.cs = installed
              /\ IF installed.tag = "Ongoing"
                 THEN /\ Len(hist') = n - k + 2
                      /\ hist'[n - k + 2].pos = SubSeq(installed.indices, 1, k)
                 ELSE IsNone(ret') /\ hist' = hist]_vars

\* n = 4, k = 2 right after the call that found the producer exhausted: the
\* fourth call, returning the fourth tuple
C16_Witness ==
    /\ k0 = 2 /\ Len(src) = 4
    /\ calls = 4 /\ IsSome(ret)
    /\ perm.state.tag = "Complete"
    /\ Len(hist) = 4

\* ------------------------------------------------------------- C17
\* C17: once the producer wrapped by a LazyBuffer has signalled end-of-data
\* (it has been pulled more often than it gave items), no later get(index),
\* whatever the index, invokes the producer's next() again.
C17_PermanentlyExhausted ==
    [][lb.pulls > Len(lb.buffer) => lb'.pulls = lb.pulls]_vars

\* ------------------------------------------------------------- C18
\* C18: for a MultiProduct with zero digits advance() is a no-op: in every
\* reachable state current is absent and no field has changed, so next()
\* returns None on every call, count() is 0 and size_hint() is (0, Some(0)).
C18_ZeroDigitsNoOp ==
    Len(digits) = 0 =>
        /\ mp = multi_cartesian_product(<<>>)
        /\ IsNone(mp.cur)
        /\ mpcalls > 0 => IsNone(mpret)
        /\ mpcount = 0 /\ pulled = {}
        /\ \A overflow_checks \in BOOLEAN :
              MultiProductCount(mp, overflow_checks) = Some(ToUsize(0))
        /\ MultiProductSizeHint(mp) = <<ToUsize(0), Some(ToUsize(0))>>

\* the product of no digits after two calls of next()
C18_Witness ==
    /\ digits = <<>>
    /\ mpcalls = 2 /\ mpnones = 2 /\ IsNone(mpret)
    /\ IsNone(mp.cur)

\* ------------------------------------------------------------- C19
\* the exact product of what the cursors of digits d, d + 1, ... have left
RECURSIVE DecProductLeft(_, _)
DecProductLeft(d, acc) ==
    IF d > Len(mp.iters) \/ acc = <<>>
    THEN acc
    ELSE DecProductLeft(d + 1, DecMul(acc, Len(mp.iters[d].iter)))

\* C19: count() of a product that is not in progress is overflow-aware: when
\* the product of the digits' remaining counts exceeds usize::MAX, the call
\* does not abort and does not return a wrapped number (the one usize that is
\* not a wrapped count is the saturated usize::MAX).
C19_CountOverflowAware ==
    (cnt # NotCalled /\ Len(digits) > 0 /\ IsNone(mp.cur)
        /\ ~DecLessEq(DecProductLeft(1, <<1>>), UsizeMaxDec)) =>
        /\ ~IsPanic(cnt.ret)
        /\ IsSome(cnt.ret) => cnt.ret.val = UsizeMAX

\* ------------------------------------------------------------- C20
\* C20: Permutations pulls its producer lazily: after construction with k and
\* j calls of next(), the producer's next() has been invoked at most
\* k + max(j - 1, 0) times in all (not at all when k = 0), and it is never
\* invoked again after it has returned end-of-data (of all its invocations at
\* most one did not give an item).
C20_LazyPulls ==
    LET invoked == perm.vals.pulls
        given == Len(perm.vals.buffer)
    IN  /\ invoked <= k0 + (IF calls >= 1 THEN calls - 1 ELSE 0)
        /\ k0 = 0 => invoked = 0
        /\ invoked - given <= 1

\* n = 4, k = 2, two calls past the one that found the producer exhausted:
\* five invocations, the last of them at the fifth call
C20_Witness ==
    /\ k0 = 2 /\ Len(src) = 4
    /\ calls = 7 /\ IsSome(ret)
    /\ perm.vals.pulls = 5 /\ Len(perm.vals.buffer) = 4

\* ------------------------------------------------------------- C21
\* C21: Permutations is not fused in its known-length phase: whenever next()
\* returns None with the state at Complete(Start{n, k}) (after a full
\* enumeration; also for k = 0, and for k = 1, where every tuple came from the
\* unknown-length phase), the following next() returns the first tuple
\* (positions 0..k) again and the whole sequence of n!/(n-k)! tuples repeats
\* before the next None; only the Empty state returns None forever.
C21_NotFused ==
    LET k == k0
        n == IF k0 = 0 THEN 0 ELSE Len(src)
        total == FallingFactorial(n, k)
        ref == ReferenceTuples(n, k)
    IN  IF k > n
        THEN perm.state = Empty /\ ~IsSome(ret)
        ELSE /\ perm.state # Empty
             /\ IsNone(ret) =>
                   /\ perm.state = Complete(CompleteStart(n, k))
                   /\ calls = nones * (total + 1)
                   /\ Len(hist) = total
             /\ (nones >= 1 /\ IsSome(ret)) =>
                   /\ calls = nones * (total + 1) + Len(hist)
                   /\ hist[1].pos = [i \in 1..k |-> i - 1]
                   /\ Len(hist) <= total
             /\ (nones >= 2 /\ IsNone(ret)) => HistPositions = ref

\* k = 1 over three items: the second None, after the three tuples came again
C21_Witness ==
    /\ k0 = 1 /\ Len(src) = 3
    /\ nones = 2 /\ IsNone(ret)
    /\ calls = 8
    /\ HistPositions = << <<0>>, <<1>>, <<2>> >>

\* ------------------------------------------------------------- C22
\* C22: for one or more digit sequences, all non-empty, whenever
\* MultiProduct::next has returned None the product is in the very state it
\* was constructed in (cur absent, every live cursor equal to its pristine
\* copy), and the next() after that None returns the first tuple again.
C22_ExhaustedIsFresh ==
    (Len(digits) >= 1 /\ AllDigitsNonEmpty) =>
        /\ IsNone(mpret) =>
              /\ IsNone(mp.cur)
              /\ \A d \in 1..Len(digits) :
                    /\ mp.iters[d].iter = mp.iters[d].iter_orig
                    /\ mp.iters[d].iter_orig = digits[d]
              /\ mp = multi_cartesian_product(digits)
        /\ (mpnones >= 1 /\ IsSome(mpret) /\ mpcount = 1) =>
              mpret.val = [d \in 1..Len(digits) |-> Head(digits[d])]

\* lengths 2, 1, 3: the call after the first None returned the first tuple
C22_Witness ==
    /\ Len(digits) = 3
    /\ Len(digits[1]) = 2 /\ Len(digits[2]) = 1 /\ Len(digits[3]) = 3
    /\ mpnones = 1 /\ mpcount = 1
    /\ mpret = Some(<< <<1, 1>>, <<2, 1>>, <<3, 1>> >>)

\* ------------------------------------------------------------- C23
\* next() called on m until it returns None, at most `steps` times: the
\* product reached and the last tuple returned (`last` if there was none)
RECURSIVE MultiDrainLast(_, _, _)
MultiDrainLast(m, steps, last) ==
    LET r == MultiProductNext(m)
    IN  IF steps = 0 THEN [mp |-> m, last |-> last, done |-> FALSE]
        ELSE IF ~IsSome(r.ret) THEN [mp |-> r.mp, last |-> last, done |-> TRUE]
        ELSE MultiDrainLast(r.mp, steps - 1, r.ret)
\* the last tuple next() returns from m on before it next returns None, None
\* if it returns no tuple (followed sixteen calls at a time)
RECURSIVE MultiLastByNext(_, _)
MultiLastByNext(m, last) ==
    LET x == MultiDrainLast(m, 16, last)
    IN  IF x.done THEN x.last ELSE MultiLastByNext(x.mp, x.last)

\* C23: in every reachable state of a MultiProduct (not started or in
\* progress, any number of digits, zero included), last() returns the final
\* tuple that repeated next() calls from that state return before the next
\* None, and None exactly when next() returns no tuple.
C23_LastIsFinalTuple ==
    MultiProductLast(mp) = MultiLastByNext(mp, None)

\* ------------------------------------------------------------- C24
\* C24: for every list of digit sequences (zero or more digits, empty digits
\* allowed), MultiProductRef::next and MultiProduct::next return the same
\* values call for call, up to and including the first None.
C24_SameAsMultiProduct ==
    (mpnones = 0 \/ (mpnones = 1 /\ IsNone(mpret))) => refret = mpret

====
